---------------------------- MODULE Spec2Model ----------------------------
(***************************************************************************)
(* The ArvanCloud libdns adapter: the Provider facade (GetRecords,         *)
(* AppendRecords, SetRecords, DeleteRecords), the transport client         *)
(* (getRecords, createRecord, updateRecord, deleteRecord, do), the record   *)
(* locator (findExistingRecord) and the record codec (toLibDNSRecord,      *)
(* arvancloudRecord, wrapContent, unwrapContent).                          *)
(*                                                                         *)
(* Go strings that the code inspects character by character (names, zone,  *)
(* TXT text) are sequences of one-character strings.  Record types and IP  *)
(* literals, which the code only compares as wholes, are TLA+ strings.     *)
(***************************************************************************)
EXTENDS Integers, Sequences, FiniteSets, TLC

VARIABLES
    \* ---- the provider (server side) ----
    zoneRecs,    \* the zone's provider records, in listing order
    nextId,      \* next identifier the provider assigns
    listShape,   \* how the provider lays out a listing response (see PageData)
    \* ---- the Provider value and its callers ----
    client,      \* Provider.client: 0 is nil, otherwise the instance number
    nInit,       \* number of newClient calls so far
    mu,          \* Provider.mu: 0 is unlocked, otherwise the caller holding it
    call,        \* per caller: the facade call in progress (see NewCall)
    \* ---- pure-function harnesses ----
    fx           \* record of the codec / locator harness

vars == <<zoneRecs, nextId, listShape, client, nInit, mu, call, fx>>

-----------------------------------------------------------------------------
(* Go's strings package on character sequences *)

HasPrefix(s, p) ==
    /\ Len(p) <= Len(s)
    /\ SubSeq(s, 1, Len(p)) = p

HasSuffix(s, p) ==
    /\ Len(p) <= Len(s)
    /\ SubSeq(s, Len(s) - Len(p) + 1, Len(s)) = p

TrimPrefix(s, p) ==
    IF HasPrefix(s, p) THEN SubSeq(s, Len(p) + 1, Len(s)) ELSE s

TrimSuffix(s, p) ==
    IF HasSuffix(s, p) THEN SubSeq(s, 1, Len(s) - Len(p)) ELSE s

Contains(s, sub) ==
    \E i \in 0..(Len(s) - Len(sub)) : SubSeq(s, i + 1, i + Len(sub)) = sub

\* simple case folding of one character, over the letters the model uses
FoldCh(c) ==
    CASE c = "W" -> "w"
      [] c = "Z" -> "z"
      [] c = "V" -> "v"
      [] OTHER -> c

Fold(s) == [i \in 1..Len(s) |-> FoldCh(s[i])]

EqualFold(a, b) == Fold(a) = Fold(b)

\* strings.EqualFold on record types (whole TLA+ strings)
FoldType(t) ==
    CASE t = "a" -> "A"
      [] t = "txt" -> "TXT"
      [] t = "x" -> "X"
      [] OTHER -> t

EqualFoldType(a, b) == FoldType(a) = FoldType(b)

-----------------------------------------------------------------------------
(* libdns name helpers, as called at client.go:84 and client.go:365 *)

\* libdns.AbsoluteName(name, zone) for a non-empty zone and a name without a
\* trailing dot: "" and "@" give the zone, anything else name + "." + zone.
AbsoluteName(name, zone) ==
    IF name = <<>> \/ name = <<"@">> THEN zone
    ELSE name \o <<".">> \o zone

\* libdns.RelativeName(fqdn, zone): trims a trailing dot, then the zone
\* (without its trailing dot), then a dot; the empty rest is "@".
RelativeName(fqdn, zone) ==
    LET rel == TrimSuffix(TrimSuffix(TrimSuffix(fqdn, <<".">>),
                                     TrimSuffix(zone, <<".">>)), <<".">>)
    IN  IF rel = <<>> THEN <<"@">> ELSE rel

-----------------------------------------------------------------------------
(* TXT quoting, client.go:226-238 *)

Quote == "\""
Backslash == "\\"

unwrapContent(content) ==
    IF HasPrefix(content, <<Quote>>) /\ HasSuffix(content, <<Quote>>)
    THEN TrimPrefix(TrimSuffix(content, <<Quote>>), <<Quote>>)
    ELSE content

\* fmt.Sprintf("%q", s): escapes every quote and backslash, wraps in quotes
RECURSIVE EscapeQ(_)
EscapeQ(s) ==
    IF s = <<>> THEN <<>>
    ELSE (IF Head(s) = Quote \/ Head(s) = Backslash
          THEN <<Backslash, Head(s)>> ELSE <<Head(s)>>) \o EscapeQ(Tail(s))

SprintfQ(s) == <<Quote>> \o EscapeQ(s) \o <<Quote>>

wrapContent(content) ==
    IF ~HasPrefix(content, <<Quote>>) /\ ~HasSuffix(content, <<Quote>>)
    THEN SprintfQ(content)
    ELSE content

-----------------------------------------------------------------------------
(* Record shapes.                                                          *)
(*                                                                         *)
(* A generic record (libdns.Record) is [kind, name, ttl, type, f]: kind is  *)
(* the Go type (Address, CNAME, NS, CAA, MX, SRV, TXT, RR), ttl a          *)
(* time.Duration in milliseconds, f the type's fields as strings: Address   *)
(* <<ip>>, CNAME/NS <<target>>, CAA <<tag, value>>, MX <<pref, target>>,    *)
(* SRV <<prio, weight, port, target>>, TXT the text's characters, RR the    *)
(* data.  type is read for kind RR only.                                    *)
(*                                                                         *)
(* A provider record as the client holds it (arDNSRecord) is               *)
(* [ID, Type, Name, Value, TTL]; ID 0 is the empty identifier.  Value is an *)
(* `any`: [k, v] where k is the dynamic type -- a Go struct put there by    *)
(* arvancloudRecord ("ARecordValue", "TXTRecordValue", ...), "slice" for    *)
(* the []ARecordValue DeleteRecords assigns, or what encoding/json decodes  *)
(* into an `any`: "jsonlist" ([]any), "jsonobj" (map[string]any),           *)
(* "jsonstr" (string), "nil" -- and v the content as strings.              *)
(***************************************************************************)

IPv4s == {"1.1.1.1", "2.2.2.2"}
IPv6s == {"::1"}

\* libdns RR().Type
RRType(r) ==
    CASE r.kind = "Address" -> (IF r.f[1] \in IPv4s THEN "A" ELSE "AAAA")
      [] r.kind = "RR" -> r.type
      [] OTHER -> r.kind

\* libdns RR().Data of an Address: IP.String()
RRData(r) == r.f[1]

\* netip.ParseAddr accepts exactly the literals of the two families
ParseAddrOk(s) == s \in IPv4s \cup IPv6s

NilValue == [k |-> "nil", v |-> <<>>]

\* client.go:438-483
arvancloudRecord(r) ==
    [ID |-> 0,
     Name |-> r.name,
     Type |-> RRType(r),
     TTL |-> r.ttl \div 1000,
     Value |->
        CASE r.kind = "Address" -> [k |-> "ARecordValue", v |-> <<r.f[1]>>]
          [] r.kind = "CNAME" -> [k |-> "CNAMERecordValue", v |-> <<r.f[1]>>]
          [] r.kind = "NS" -> [k |-> "NSRecordValue", v |-> <<r.f[1]>>]
          [] r.kind = "CAA" -> [k |-> "CAARecordValue", v |-> <<r.f[1], r.f[2]>>]
          [] r.kind = "MX" -> [k |-> "MXRecordValue", v |-> <<r.f[1], r.f[2]>>]
          [] r.kind = "SRV" ->
                [k |-> "SRVRecordValue", v |-> <<r.f[1], r.f[2], r.f[3], r.f[4]>>]
          [] r.kind = "TXT" -> [k |-> "TXTRecordValue", v |-> wrapContent(r.f)]
          [] OTHER -> NilValue]

Generic(kind, name, ttl, type, f) ==
    [kind |-> kind, name |-> name, ttl |-> ttl, type |-> type, f |-> f]

NoGeneric == Generic("none", <<>>, 0, "", <<>>)

\* the default arm's flattening (client.go:423-428): the string is parsed as
\* a JSON object and its field values are joined; a string that is no JSON
\* object leaves the map nil and the data empty.  A JSON-object string is
\* written <<"{", value>> (one field).
FlattenFields(v) ==
    IF v # <<>> /\ v[1] = "{" THEN Tail(v) ELSE <<>>

\* libdns RR.Parse(): only HTTPS and SVCB reach a parser from the default
\* arm (the other typed records are caught by the switch); empty data does
\* not parse as a service binding.
RRParseFails(type, data) == type \in {"HTTPS", "SVCB"} /\ data = <<>>

\* client.go:364-436. A single-value type assertion r.Value.(T) panics when
\* the dynamic type is not T.  The result is [st, rec], st in ok/err/panic.
toLibDNSRecord(r, zone) ==
    LET name == RelativeName(r.Name, zone)
        ttl == r.TTL * 1000
        Ok(kind, f) == [st |-> "ok", rec |-> Generic(kind, name, ttl, r.Type, f)]
        Panic == [st |-> "panic", rec |-> NoGeneric]
        Err == [st |-> "err", rec |-> NoGeneric]
        v == r.Value.v
    IN  CASE r.Type \in {"A", "AAAA"} ->
                IF r.Value.k # "ARecordValue" THEN Panic
                ELSE IF ~ParseAddrOk(v[1]) THEN Err
                ELSE Ok("Address", <<v[1]>>)
          [] r.Type = "CAA" ->
                IF r.Value.k # "CAARecordValue" THEN Panic ELSE Ok("CAA", v)
          [] r.Type = "CNAME" ->
                IF r.Value.k # "CNAMERecordValue" THEN Panic ELSE Ok("CNAME", v)
          [] r.Type = "MX" ->
                IF r.Value.k # "MXRecordValue" THEN Panic ELSE Ok("MX", v)
          [] r.Type = "NS" ->
                IF r.Value.k # "NSRecordValue" THEN Panic ELSE Ok("NS", v)
          [] r.Type = "SRV" ->
                IF r.Value.k # "SRVRecordValue" THEN Panic ELSE Ok("SRV", v)
          [] r.Type = "TXT" ->
                IF r.Value.k # "TXTRecordValue" THEN Panic
                ELSE Ok("TXT", unwrapContent(v))
          [] OTHER ->
                IF r.Value.k # "jsonstr" THEN Panic
                ELSE IF RRParseFails(r.Type, FlattenFields(v)) THEN Err
                ELSE Ok("RR", FlattenFields(v))

-----------------------------------------------------------------------------
(* The record locator, client.go:83-108 *)

\* lines 92-101: the stored name as it is compared.  The inner test for "@"
\* is under a guard that excludes "@", so "@" passes through unchanged.
recordNameNorm(recordName, zone) ==
    LET abs == IF ~Contains(recordName, zone) /\ recordName # <<"@">>
               THEN (IF recordName = <<"@">> THEN zone
                     ELSE recordName \o <<".">> \o zone)
               ELSE recordName
    IN  TrimSuffix(abs, <<".">>)

\* the comparison without the type
recordMatchesNameOnly(r, searchName, rType, zone) ==
    EqualFold(recordNameNorm(r.Name, zone), searchName)

\* line 103: the comparison of one stored record with the search key
recordMatches(r, searchName, rType, zone) ==
    /\ EqualFold(recordNameNorm(r.Name, zone), searchName)
    /\ EqualFoldType(r.Type, rType)

\* index of the first matching record, 0 for nil
findExistingRecord(records, name, rType, zone) ==
    LET searchName == AbsoluteName(name, zone)
        hits == {i \in 1..Len(records) :
                    recordMatches(records[i], searchName, rType, zone)}
    IN  IF hits = {} THEN 0
        ELSE CHOOSE i \in hits : \A j \in hits : i <= j

-----------------------------------------------------------------------------
(* Harness of the codec: a generic record is encoded, decoded and encoded  *)
(* again (all in memory, no JSON in between).                               *)

MaxTextLen == 3

TextChars == {"a", Quote, Backslash}

RECURSIVE TextsUpTo(_)
TextsUpTo(n) ==
    IF n = 0 THEN {<<>>}
    ELSE LET shorter == TextsUpTo(n - 1)
         IN  shorter \cup {Append(t, c) : t \in {u \in shorter : Len(u) = n - 1},
                                           c \in TextChars}

RelNames == {<<"w">>, <<"@">>, <<"v", ".", "w">>}

CodecZones == {<<"z">>, <<"z", ".">>}

\* TTLs in milliseconds: zero, a whole number of seconds, a fraction
CodecTTLs == {0, 60000, 1500}

CodecFields ==
    [Address |-> {<<ip>> : ip \in IPv4s \cup IPv6s},
     CNAME |-> {<<"h">>},
     NS |-> {<<"h">>},
     CAA |-> {<<"issue", "ca">>},
     MX |-> {<<"10", "h">>},
     SRV |-> {<<"1", "2", "443", "h">>},
     TXT |-> TextsUpTo(MaxTextLen)]

CodecKinds == {"Address", "CNAME", "NS", "CAA", "MX", "SRV", "TXT"}

CodecInputs ==
    UNION {{Generic(k, n, t, "", f) : n \in RelNames, t \in CodecTTLs,
                                      f \in CodecFields[k]} : k \in CodecKinds}

NoAr == [ID |-> 0, Name |-> <<>>, Type |-> "", TTL |-> 0, Value |-> NilValue]

IdleFacade ==
    /\ zoneRecs = <<>> /\ nextId = 1 /\ listShape = "nested"
    /\ client = 0 /\ nInit = 0 /\ mu = 0 /\ call = <<>>

facadeVars == <<zoneRecs, nextId, listShape, client, nInit, mu, call>>

CodecInit ==
    /\ IdleFacade
    /\ \E r \in CodecInputs, z \in CodecZones :
          fx = [st |-> "in", zone |-> z, r |-> r,
                p1 |-> NoAr, g |-> [st |-> "none", rec |-> NoGeneric], p2 |-> NoAr]

CodecEncode ==
    /\ fx.st = "in"
    /\ fx' = [fx EXCEPT !.st = "enc", !.p1 = arvancloudRecord(fx.r)]
    /\ UNCHANGED facadeVars

CodecDecode ==
    /\ fx.st = "enc"
    /\ fx' = [fx EXCEPT !.st = "dec", !.g = toLibDNSRecord(fx.p1, fx.zone)]
    /\ UNCHANGED facadeVars

CodecReencode ==
    /\ fx.st = "dec"
    /\ fx.g.st = "ok"
    /\ fx' = [fx EXCEPT !.st = "reenc", !.p2 = arvancloudRecord(fx.g.rec)]
    /\ UNCHANGED facadeVars

CodecNext == CodecEncode \/ CodecDecode \/ CodecReencode

SpecCodec == CodecInit /\ [][CodecNext]_vars

\* C7: the codec round trip.  Once a valid generic record of an explicitly
\* modelled type has been encoded, decoded and encoded again, the second
\* provider record equals the first in name, type, TTL and value; and the
\* decoding in between never fails.
C7_RoundTrip ==
    /\ fx.st = "dec" => fx.g.st = "ok"
    /\ fx.st = "reenc" =>
          /\ fx.p2.Name = fx.p1.Name
          /\ fx.p2.Type = fx.p1.Type
          /\ fx.p2.TTL = fx.p1.TTL
          /\ fx.p2.Value = fx.p1.Value

-----------------------------------------------------------------------------
(* Harness of the locator: findExistingRecord over stored names in every   *)
(* form the provider may use.                                               *)

MaxStored == 2

ZoneStrs == {<<"z">>, <<"z", ".">>}

\* the apex marker, bare relative labels, fully-qualified forms with and
\* without the trailing dot, in lower and upper case
StoredNames ==
    {<<"@">>, <<"z">>, <<"z", ".">>, <<"Z">>,
     <<"w">>, <<"W">>, <<"w", ".", "z">>, <<"w", ".", "z", ".">>,
     <<"W", ".", "Z">>, <<"v">>}

StoredTypes == {"A", "a", "TXT"}

SearchNames == {<<"@">>, <<"w">>, <<"W">>}

SearchTypes == {"A", "TXT", "txt"}

StoredRec(id, name, type) ==
    [ID |-> id, Name |-> name, Type |-> type, TTL |-> 60, Value |-> NilValue]

StoredLists(max) ==
    UNION {{[i \in 1..n |-> StoredRec(i, nm[i], ty[i])] :
                nm \in [1..n -> StoredNames], ty \in [1..n -> StoredTypes]} :
           n \in 1..max}

\* The logical (canonical) name a stored provider name stands for: lower
\* case, no trailing dot, fully qualified.
LogicalStored(stored, zone) ==
    LET zn == Fold(TrimSuffix(zone, <<".">>))
        s == Fold(TrimSuffix(stored, <<".">>))
    IN  IF s = <<"@">> THEN zn
        ELSE IF s = zn \/ HasSuffix(s, <<".">> \o zn) THEN s
        ELSE s \o <<".">> \o zn

\* The logical name of a zone-relative search name.
LogicalSearch(name, zone) ==
    LET zn == Fold(TrimSuffix(zone, <<".">>))
    IN  IF name = <<"@">> THEN zn ELSE Fold(name) \o <<".">> \o zn

Denotes(r, name, rType, zone) ==
    /\ LogicalStored(r.Name, zone) = LogicalSearch(name, zone)
    /\ FoldType(r.Type) = FoldType(rType)

FindInit ==
    /\ IdleFacade
    /\ \E z \in ZoneStrs, recs \in StoredLists(MaxStored), n \in SearchNames,
          t \in SearchTypes :
          fx = [st |-> "in", zone |-> z, recs |-> recs, name |-> n,
                type |-> t, res |-> 0]

FindApply ==
    /\ fx.st = "in"
    /\ fx' = [fx EXCEPT !.st = "found",
                        !.res = findExistingRecord(fx.recs, fx.name, fx.type, fx.zone)]
    /\ UNCHANGED facadeVars

FindNext == FindApply

SpecFind == FindInit /\ [][FindNext]_vars

\* C3: the locator returns a record exactly when some stored record denotes
\* the searched name+type -- whatever form (apex marker, relative label,
\* fully-qualified with or without trailing dot, any letter case) the stored
\* name and the zone take -- and the record it returns denotes that name+type.
C3_FindNormalizes ==
    fx.st = "found" =>
        /\ fx.res # 0 => Denotes(fx.recs[fx.res], fx.name, fx.type, fx.zone)
        /\ fx.res = 0 =>
              \A i \in 1..Len(fx.recs) :
                  ~Denotes(fx.recs[i], fx.name, fx.type, fx.zone)

-----------------------------------------------------------------------------
(* The provider's REST API, as the transport client sees it.               *)
(*                                                                         *)
(* A record of the zone is [id, type, name, ttl, vk, v]: vk is the JSON     *)
(* shape in which the provider serialises the value ("jsonlist" for the IP  *)
(* list of an A/AAAA record, "jsonobj", "jsonstr", "nil" for null) and v    *)
(* its content.  IP entries are modelled by their ip field; port, weight    *)
(* and country ride along unchanged and are left out.                       *)
(***************************************************************************)

\* records per listing page (the client asks for per_page=100, client.go:60)
PageLen == 1

ServerRec(id, type, name, ttl, vk, v) ==
    [id |-> id, type |-> type, name |-> name, ttl |-> ttl, vk |-> vk, v |-> v]

\* json.Unmarshal of one record object into arDNSRecord (Value is an `any`)
WireRec(sr) ==
    [ID |-> sr.id, Name |-> sr.name, Type |-> sr.type, TTL |-> sr.ttl,
     Value |-> [k |-> sr.vk, v |-> sr.v]]

\* what an HTTP answer can be: the status code, and whether the envelope's
\* errors list is non-empty
Answer(status, errors) == [status |-> status, errors |-> errors]

Answers == {Answer(200, FALSE), Answer(200, TRUE), Answer(500, FALSE)}

\* answers to a request that names an identifier
AnswersFor(id) ==
    IF \E i \in 1..Len(zoneRecs) : zoneRecs[i].id = id
    THEN Answers
    ELSE {Answer(200, FALSE), Answer(404, FALSE), Answer(500, FALSE)}

\* client.do without the status check: only the envelope's errors list counts
doFailsOnErrorsListOnly(a) == a.errors

\* client.do, lines 183-190: the two checks that turn an answer into an error
doFails(a) == a.status >= 400 \/ a.errors

\* the provider applies a request only when it answers without error
Applied(a) == a.status < 400 /\ ~a.errors

IndexOfId(id) ==
    IF \E i \in 1..Len(zoneRecs) : zoneRecs[i].id = id
    THEN CHOOSE i \in 1..Len(zoneRecs) : zoneRecs[i].id = id
    ELSE 0

RemoveAt(seq, i) == SubSeq(seq, 1, i - 1) \o SubSeq(seq, i + 1, Len(seq))

\* ---- listing ----

LastPage == IF Len(zoneRecs) = 0 THEN 1
            ELSE (Len(zoneRecs) + PageLen - 1) \div PageLen

PageRecs(n) ==
    LET lo == (n - 1) * PageLen + 1
        hi == IF n * PageLen < Len(zoneRecs) THEN n * PageLen ELSE Len(zoneRecs)
    IN  [i \in 1..(IF hi >= lo THEN hi - lo + 1 ELSE 0) |-> WireRec(zoneRecs[lo + i - 1])]

\* The listing of page n as getRecords's paginatedResponse sees it after
\* client.do (lines 192-196) has unmarshalled the envelope's data into it.
\* The provider lays the listing out in one of two ways:
\*   "flat":   {"data": [records], "links": {...}, "meta": {...}} -- links
\*             and meta beside data, as arResponse declares them
\*             (client.go:485-492); data is a JSON array, and unmarshalling
\*             an array into the struct paginatedResponse is an error;
\*   "nested": {"data": {"data": [records], "links": {...}, "meta": {...}}}
\*             -- data is an object with the fields paginatedResponse has.
\* decoded = FALSE stands for the unmarshal error.
PageData(n) ==
    IF listShape = "flat"
    THEN [decoded |-> FALSE, Data |-> <<>>, Next |-> FALSE,
          CurrentPage |-> 0, LastPage |-> 0]
    ELSE [decoded |-> TRUE, Data |-> PageRecs(n), Next |-> n < LastPage,
          CurrentPage |-> n, LastPage |-> LastPage]

\* ---- mutations ----

\* the record the provider stores for a POST body; an A/AAAA value is held
\* as an IP list, a null value in the representation nilAs
Stored(id, ar, nilAs) ==
    ServerRec(id, ar.Type, ar.Name, ar.TTL,
              CASE ar.Value.k \in {"ARecordValue", "slice", "jsonlist"} -> "jsonlist"
                [] ar.Value.k = "nil" -> nilAs
                [] OTHER -> "jsonobj",
              ar.Value.v)

\* the data of a mutation's answer: the record itself, or no data at all
\* (the result then keeps its zero value)
Echoes == {"rec", "none"}

EchoRec(echo, sr) == IF echo = "rec" THEN WireRec(sr) ELSE NoAr

-----------------------------------------------------------------------------
(* The Provider facade.  A facade call runs as a sequence of steps, one per *)
(* transport request; each step carries the local computation up to the     *)
(* next request or to the return.                                           *)
(*                                                                         *)
(* call[p] = [pc, op, zone, inputs, idx, page, existing, ret, outcome, log, *)
(*            zone0, n, prev]:                                              *)
(*   pc       "idle", "init", "list", "setdel", "create", "del", "done",    *)
(*            "crashed" (the goroutine panicked)                            *)
(*   existing the slice getRecords returned                                  *)
(*   ret      the records the call returns                                  *)
(*   outcome  "none" while running, then "ok", "err" or "panic"             *)
(*   log      the transport requests of this call with their answers        *)
(*   zone0    the zone when the call started; n the calls started so far;   *)
(*   prev     op, zone, inputs and outcome of the caller's previous call    *)
(*   cl       the client instance the call sends its requests with (0: none *)
(*            read yet)                                                     *)
(***************************************************************************)

NoPrev == [op |-> "", zone |-> <<>>, inputs |-> <<>>, outcome |-> "none"]

NewCall ==
    [pc |-> "idle", op |-> "", zone |-> <<>>, inputs |-> <<>>, idx |-> 0,
     page |-> 0, existing |-> <<>>, ret |-> <<>>, outcome |-> "none",
     log |-> <<>>, zone0 |-> <<>>, n |-> 0, prev |-> NoPrev, cl |-> 0]

Req(m, target, body, a) == [m |-> m, target |-> target, body |-> body, a |-> a]

\* a facade that stays in its loop when a request fails and issues it again
ReturnRetrying(c, out, recs) ==
    IF out = "err" THEN c
    ELSE [c EXCEPT !.pc = "done", !.outcome = out, !.ret = recs]

\* return (records, nil) / return (nil, err) / panic
Return(c, out, recs) == [c EXCEPT !.pc = "done", !.outcome = out, !.ret = recs]

Crash(c) == [c EXCEPT !.pc = "crashed", !.outcome = "panic", !.ret = <<>>]

\* the end of a loop body that produced a record: append, or leave with the
\* codec's error, or panic
AfterTranslate(c, t, more) ==
    CASE t.st = "panic" -> Crash(c)
      [] t.st = "err" -> Return(c, "err", <<>>)
      [] OTHER -> more

\* GetRecords lines 36-44: translate every record, stop at the first failure
RECURSIVE TranslateAll(_, _, _)
TranslateAll(recs, zone, acc) ==
    IF recs = <<>> THEN [st |-> "ok", recs |-> acc]
    ELSE LET t == toLibDNSRecord(Head(recs), zone)
         IN  IF t.st # "ok" THEN [st |-> t.st, recs |-> <<>>]
             ELSE TranslateAll(Tail(recs), zone, Append(acc, t.rec))

\* ---- DeleteRecords, local part (part_000 lines 130-153) ----

\* lines 139-141: the existing value re-marshalled into []ARecordValue; a
\* value that is no JSON array leaves the slice empty (the error is dropped)
CurrentVals(val) == IF val.k \in {"jsonlist", "slice"} THEN val.v ELSE <<>>

\* the removal loop stopping after the head of the list
NewValsHeadOnly(cur, ip) ==
    IF cur # <<>> /\ Head(cur) = ip THEN Tail(cur) ELSE cur

\* lines 143-151: the entries that stay
RECURSIVE NewVals(_, _)
NewVals(cur, ip) ==
    IF cur = <<>> THEN <<>>
    ELSE IF Head(cur) = ip THEN NewVals(Tail(cur), ip)
    ELSE <<Head(cur)>> \o NewVals(Tail(cur), ip)

FoundIn(cur, ip) == \E i \in 1..Len(cur) : cur[i] = ip

\* the loop body without the test of `found`: a located A/AAAA record is
\* rewritten or deleted whether or not it held the input's IP
DeletePlanIgnoringFound(ex, r, zone) ==
    LET i == findExistingRecord(ex, r.name, RRType(r), zone)
    IN  IF i = 0 THEN "skip"
        ELSE IF RRType(r) \in {"A", "AAAA"}
        THEN (IF NewVals(CurrentVals(ex[i].Value), RRData(r)) = <<>>
              THEN "delete" ELSE "update")
        ELSE "delete"

\* what the loop body does for input r: "skip", "delete" or "update"
DeletePlan(ex, r, zone) ==
    LET i == findExistingRecord(ex, r.name, RRType(r), zone)
    IN  IF i = 0 THEN "skip"
        ELSE IF RRType(r) \in {"A", "AAAA"}
        THEN (IF ~FoundIn(CurrentVals(ex[i].Value), RRData(r)) THEN "skip"
              ELSE IF NewVals(CurrentVals(ex[i].Value), RRData(r)) = <<>>
              THEN "delete" ELSE "update")
        ELSE "delete"

\* the first input at or after i for which the loop issues a request
RECURSIVE NextDelete(_, _, _, _)
NextDelete(ex, ins, zone, i) ==
    IF i > Len(ins) THEN i
    ELSE IF DeletePlan(ex, ins[i], zone) # "skip" THEN i
    ELSE NextDelete(ex, ins, zone, i + 1)

\* ---- SetRecords, local part (part_000 lines 98-100) ----

RECURSIVE NextSetDelete(_, _, _, _)
NextSetDelete(ex, ins, zone, i) ==
    IF i > Len(ins) THEN i
    ELSE IF findExistingRecord(ex, ins[i].name, RRType(ins[i]), zone) # 0 THEN i
    ELSE NextSetDelete(ex, ins, zone, i + 1)

\* AppendRecords entered (directly, or from SetRecords line 112): with no
\* record to add it returns at once
EnterAppend(c) ==
    IF c.inputs = <<>> THEN Return(c, "ok", <<>>)
    ELSE [c EXCEPT !.pc = "create", !.idx = 1]

\* the loop of DeleteRecords continued at input i
ContinueDelete(c, i) ==
    LET j == NextDelete(c.existing, c.inputs, c.zone, i)
    IN  IF j > Len(c.inputs) THEN Return(c, "ok", c.ret)
        ELSE [c EXCEPT !.pc = "del", !.idx = j]

\* SetRecords going straight to AppendRecords, deleting nothing
ContinueSetWithoutDeletes(c, i) == EnterAppend(c)

\* the loop of SetRecords continued at input i
ContinueSet(c, i) ==
    LET j == NextSetDelete(c.existing, c.inputs, c.zone, i)
    IN  IF j > Len(c.inputs) THEN EnterAppend(c)
        ELSE [c EXCEPT !.pc = "setdel", !.idx = j]

\* SetRecords dropping the error of its delete request
AfterSetDeleteIgnoringError(c, a) == ContinueSet(c, c.idx + 1)

\* SetRecords lines 101-104: the answer to its delete request
AfterSetDelete(c, a) ==
    IF doFails(a) THEN Return(c, "err", <<>>)
    ELSE ContinueSet(c, c.idx + 1)

\* what follows a successful getRecords in each operation
AfterList(c) ==
    CASE c.op = "Get" ->
            LET t == TranslateAll(c.existing, c.zone, <<>>)
            IN  IF t.st = "panic" THEN Crash(c) ELSE Return(c, t.st, t.recs)
      [] c.op = "Set" -> ContinueSet(c, 1)
      [] OTHER -> ContinueDelete(c, 1)

-----------------------------------------------------------------------------
(* The facade's steps *)

MaxZone == 2
MaxInputs == 2

\* provider records a zone may hold before the call: IP lists of two and of
\* one entry, a record of a type outside the codec's switch whose value is a
\* string (a JSON object in it) stored under its fully-qualified name, and a
\* TXT record.  The provider keeps several records of one name+type (TXT,
\* MX, NS values are single), so a zone may hold a candidate twice.
ZoneCands ==
    {[type |-> "A", name |-> <<"w">>, vk |-> "jsonlist", v |-> <<"1.1.1.1", "2.2.2.2">>],
     [type |-> "A", name |-> <<"w">>, vk |-> "jsonlist", v |-> <<"1.1.1.1">>],
     [type |-> "X", name |-> <<"w", ".", "z", ".">>, vk |-> "jsonstr", v |-> <<"{", "d1">>],
     [type |-> "TXT", name |-> <<"w">>, vk |-> "jsonobj", v |-> <<"t">>]}

InitZones ==
    UNION {{[i \in 1..n |-> ServerRec(i, pick[i].type, pick[i].name, 60,
                                      pick[i].vk, pick[i].v)] :
                pick \in [1..n -> ZoneCands]} : n \in 0..MaxZone}

\* generic records a caller may pass
InputCands ==
    {Generic("Address", <<"w">>, 60000, "", <<"1.1.1.1">>),
     Generic("Address", <<"w">>, 60000, "", <<"2.2.2.2">>),
     Generic("RR", <<"w">>, 60000, "X", <<"d2">>),
     Generic("TXT", <<"w">>, 60000, "", <<"t">>)}

InputSeqs == UNION {[1..n -> InputCands] : n \in 0..MaxInputs}

Ops == {"Get", "Append", "Set", "Delete"}

Init ==
    /\ zoneRecs \in InitZones
    /\ nextId = Len(zoneRecs) + 1
    /\ listShape \in {"flat", "nested"}
    /\ client = 0
    /\ nInit = 0
    /\ mu = 0
    /\ call = <<NewCall>>
    /\ fx = [st |-> "off"]

serverVars == <<zoneRecs, nextId, listShape>>

\* the code behind p.mu.Unlock(): the operation goes on with the client it
\* reads from p.client (lines 31, 58, 93, 123)
LeaveLocked(c, cl) ==
    IF c.op = "Append" THEN EnterAppend([c EXCEPT !.cl = cl])
    ELSE [c EXCEPT !.pc = "list", !.page = 1, !.cl = cl]

\* a caller enters one of the four operations
StartCall(p) ==
    /\ call[p].pc = "idle"
    /\ \E o \in Ops, z \in ZoneStrs, ins \in InputSeqs :
          /\ o = "Get" => ins = <<>>
          /\ call' = [call EXCEPT ![p] =
                [NewCall EXCEPT !.pc = "init", !.op = o, !.zone = z,
                                !.inputs = ins, !.zone0 = zoneRecs,
                                !.n = call[p].n + 1, !.prev = call[p].prev]]
    /\ UNCHANGED <<serverVars, client, nInit, mu, fx>>

\* the locked section at the head of every operation (part_000 lines 25-29,
\* 49-53, 87-91, 117-121)
EnsureClient(p) ==
    LET c == call[p]
    IN  /\ c.pc = "init"
        /\ mu = 0
        /\ client' = IF client = 0 THEN nInit + 1 ELSE client
        /\ nInit' = IF client = 0 THEN nInit + 1 ELSE nInit
        /\ call' = [call EXCEPT ![p] =
                LeaveLocked(c, IF client = 0 THEN nInit + 1 ELSE client)]
        /\ UNCHANGED <<serverVars, mu, fx>>

\* client.getRecords, one turn of its loop (client.go:59-77), and on the
\* last page the caller's code up to its next request
ListPage(p) ==
    LET c == call[p]
        d == PageData(c.page)
    IN  /\ c.pc = "list"
        /\ \E a \in Answers :
              LET c1 == [c EXCEPT !.log = Append(@, Req("GET", c.page, NilValue, a))]
                  c2 == [c1 EXCEPT !.existing = @ \o d.Data]
              IN  call' = [call EXCEPT ![p] =
                    IF doFails(a) \/ ~d.decoded THEN Return(c1, "err", <<>>)
                    ELSE IF ~d.Next \/ d.CurrentPage >= d.LastPage THEN AfterList(c2)
                    ELSE [c2 EXCEPT !.page = @ + 1]]
        /\ UNCHANGED <<serverVars, client, nInit, mu, fx>>

\* the provider's side of DELETE /dns-records/{id}
ServerDelete(id, a) ==
    zoneRecs' = IF Applied(a) /\ IndexOfId(id) # 0
                THEN RemoveAt(zoneRecs, IndexOfId(id)) ELSE zoneRecs

\* the record a DELETE or PUT answer can carry
EchoesFor(id) == IF IndexOfId(id) # 0 THEN Echoes ELSE {"none"}

\* SetRecords, one turn of the loop that deletes (part_000 lines 98-110)
SetDelete(p) ==
    LET c == call[p]
        r == c.inputs[c.idx]
        i == findExistingRecord(c.existing, r.name, RRType(r), c.zone)
        id == c.existing[i].ID
    IN  /\ c.pc = "setdel"
        /\ \E a \in AnswersFor(id) :
              LET c1 == [c EXCEPT !.log = Append(@, Req("DELETE", id, NilValue, a))]
              IN  /\ ServerDelete(id, a)
                  /\ call' = [call EXCEPT ![p] = AfterSetDelete(c1, a)]
        /\ UNCHANGED <<nextId, listShape, client, nInit, mu, fx>>

\* AppendRecords, one turn of its loop (part_000 lines 56-67) with
\* client.createRecord (client.go:110-134)
Create(p) ==
    LET c == call[p]
        r == c.inputs[c.idx]
        ar == arvancloudRecord(r)
    IN  /\ c.pc = "create"
        /\ \E a \in Answers, echo \in Echoes, nilAs \in {"nil", "jsonstr"} :
              LET sr == Stored(nextId, ar, nilAs)
                  c1 == [c EXCEPT !.log = Append(@, Req("POST", 0, ar.Value, a))]
                  t == toLibDNSRecord(EchoRec(echo, sr), c.zone)
                  c2 == [c1 EXCEPT !.ret = Append(@, t.rec)]
              IN  /\ ar.Value.k # "nil" => nilAs = "nil"
                  /\ zoneRecs' = IF Applied(a) THEN Append(zoneRecs, sr) ELSE zoneRecs
                  /\ nextId' = IF Applied(a) THEN nextId + 1 ELSE nextId
                  /\ call' = [call EXCEPT ![p] =
                        IF doFails(a) THEN Return(c1, "err", <<>>)
                        ELSE AfterTranslate(c1, t,
                                IF c.idx = Len(c.inputs) THEN Return(c2, "ok", c2.ret)
                                ELSE [c2 EXCEPT !.idx = @ + 1])]
        /\ UNCHANGED <<listShape, client, nInit, mu, fx>>

\* DeleteRecords, one turn of its loop for an input that reaches a request
\* (part_000 lines 130-190): a full delete, or an update with the reduced
\* IP list
DeleteStep(p) ==
    LET c == call[p]
        r == c.inputs[c.idx]
        plan == DeletePlan(c.existing, r, c.zone)
        i == findExistingRecord(c.existing, r.name, RRType(r), c.zone)
        id == c.existing[i].ID
        newVals == [k |-> "slice", v |-> NewVals(CurrentVals(c.existing[i].Value), RRData(r))]
        j == IndexOfId(id)
    IN  /\ c.pc = "del"
        /\ \E a \in AnswersFor(id), echo \in EchoesFor(id) :
              LET \* line 166 writes through the pointer into the fetched slice
                  c0 == IF plan = "update"
                        THEN [c EXCEPT !.existing[i].Value = newVals] ELSE c
                  c1 == [c0 EXCEPT !.log = Append(@,
                            IF plan = "update" THEN Req("PUT", id, newVals, a)
                            ELSE Req("DELETE", id, NilValue, a))]
                  after == IF plan = "update"
                           THEN [zoneRecs[j] EXCEPT !.vk = "jsonlist", !.v = newVals.v]
                           ELSE zoneRecs[j]
                  t == toLibDNSRecord(IF j = 0 THEN NoAr ELSE EchoRec(echo, after), c.zone)
                  c2 == [c1 EXCEPT !.ret = Append(@, t.rec)]
              IN  /\ zoneRecs' =
                        IF ~Applied(a) \/ j = 0 THEN zoneRecs
                        ELSE IF plan = "update" THEN [zoneRecs EXCEPT ![j] = after]
                        ELSE RemoveAt(zoneRecs, j)
                  /\ call' = [call EXCEPT ![p] =
                        IF doFails(a) THEN Return(c1, "err", <<>>)
                        ELSE AfterTranslate(c1, t, ContinueDelete(c2, c.idx + 1))]
        /\ UNCHANGED <<nextId, listShape, client, nInit, mu, fx>>

\* the callers of the sequential specifications
Caller == {1}

Next ==
    \E p \in Caller :
        \/ StartCall(p)
        \/ EnsureClient(p)
        \/ ListPage(p)
        \/ SetDelete(p)
        \/ Create(p)
        \/ DeleteStep(p)

Spec == Init /\ [][Next]_vars

-----------------------------------------------------------------------------
(* Properties of the facade *)

Terminated(c) == c.pc \in {"done", "crashed"}

PastListing(c) == c.pc \in {"setdel", "create", "del", "done", "crashed"}

\* the requests of a call with a given method, in the order issued
Requests(c, m) == SelectSeq(c.log, LAMBDA q : q.m = m)

Mutations(c) == SelectSeq(c.log, LAMBDA q : q.m # "GET")

\* no request of the call was answered with an HTTP error or an errors list
AllAnswered(c) == \A i \in 1..Len(c.log) : Applied(c.log[i].a)

Ids(recs) == [i \in 1..Len(recs) |-> recs[i].id]

\* number of pages of a zone of n records
PagesOf(n) == IF n = 0 THEN 1 ELSE (n + PageLen - 1) \div PageLen

\* C4: pagination.  Once getRecords is over and every one of its requests was
\* answered without error, the call has issued exactly N GET requests, for
\* the pages 1..N in that order (N the number of pages of the listing), and
\* holds the records of all N pages, each exactly once, in listing order.
C4_Pagination ==
    \A p \in DOMAIN call :
        LET c == call[p]
            gets == Requests(c, "GET")
            N == PagesOf(Len(c.zone0))
        IN  (/\ c.op \in {"Get", "Set", "Delete"}
             /\ PastListing(c)
             /\ \A i \in 1..Len(gets) : Applied(gets[i].a))
            => /\ Len(gets) = N
               /\ \A i \in 1..N : gets[i].target = i
               /\ [i \in 1..Len(c.existing) |-> c.existing[i].ID] = Ids(c.zone0)

\* C6: error propagation.  A facade call one of whose transport requests was
\* answered with HTTP 500 has returned an error and no records, also when
\* earlier requests of the same call succeeded.
C6_ErrorPropagation ==
    \A p \in DOMAIN call :
        LET c == call[p]
        IN  (\E i \in 1..Len(c.log) : c.log[i].a.status = 500)
            => /\ c.pc = "done"
               /\ c.outcome = "err"
               /\ c.ret = <<>>

\* a call that failed on a 500 after an earlier request of it had changed
\* the zone
C6_Witness ==
    \E p \in DOMAIN call :
        LET c == call[p]
        IN  /\ Len(c.log) >= 3
            /\ c.log[Len(c.log)].a.status = 500
            /\ c.log[Len(c.log)].m = "POST"
            /\ \E i \in 1..(Len(c.log) - 1) :
                  c.log[i].m = "DELETE" /\ Applied(c.log[i].a)
            /\ zoneRecs # c.zone0
            /\ c.outcome = "err"

RECURSIVE SumLens(_)
SumLens(recs) ==
    IF recs = <<>> THEN 0
    ELSE (IF Head(recs).type \in {"A", "AAAA"} THEN Len(Head(recs).v) ELSE 0)
         + SumLens(Tail(recs))

\* C9: N:1 reconciliation on read.  A GetRecords call that fetched the whole
\* listing of a zone holding A/AAAA records ends without failure and returns
\* one Address record per IP entry of those records.
C9_ReadSplitsAddresses ==
    \A p \in DOMAIN call :
        LET c == call[p]
        IN  (/\ c.op = "Get"
             /\ Terminated(c)
             /\ AllAnswered(c)
             /\ [i \in 1..Len(c.existing) |-> c.existing[i].ID] = Ids(c.zone0)
             /\ \E i \in 1..Len(c.zone0) : c.zone0[i].type \in {"A", "AAAA"})
            => /\ c.outcome = "ok"
               /\ Len(SelectSeq(c.ret, LAMBDA g : g.kind = "Address"))
                     = SumLens(c.zone0)

\* the entries of an IP list other than ip, in their order
Remaining(list, ip) == SelectSeq(list, LAMBDA e : e # ip)

\* the IP list the provider held, when the call started, under identifier id
ListAtStart(c, id) ==
    LET hits == {i \in 1..Len(c.zone0) : c.zone0[i].id = id}
    IN  IF hits = {} THEN <<>> ELSE c.zone0[CHOOSE i \in hits : TRUE].v

IsAddress(r) == RRType(r) \in {"A", "AAAA"}

\* C1, one step of DeleteRecords for an A/AAAA input whose located provider
\* record holds the input's IP: exactly one request is issued, an update of
\* that identifier carrying the list without the IP when other entries
\* remain, a full delete of that identifier when none remains.
C1_Step(c, d) ==
    LET r == c.inputs[c.idx]
        i == findExistingRecord(c.existing, r.name, RRType(r), c.zone)
        list == c.existing[i].Value.v
        q == d.log[Len(d.log)]
    IN  (/\ c.op = "Delete" /\ c.pc = "del"
         /\ d # c
         /\ IsAddress(r) /\ i # 0
         /\ \E k \in 1..Len(list) : list[k] = RRData(r))
        => /\ Len(d.log) = Len(c.log) + 1
           /\ q.target = c.existing[i].ID
           /\ IF Remaining(list, RRData(r)) # <<>>
              THEN q.m = "PUT" /\ q.body.v = Remaining(list, RRData(r))
              ELSE q.m = "DELETE"

\* C1, no such input is passed over: every A/AAAA input the loop has
\* finished with, whose located record held the input's IP when the call
\* started, has a request for that record's identifier in the log; and no
\* update ever carries an empty list.
C1_State(d) ==
    /\ \A k \in 1..Len(d.log) : d.log[k].m = "PUT" => d.log[k].body.v # <<>>
    /\ (d.op = "Delete" /\ (d.pc = "del" \/ (d.pc = "done" /\ d.outcome = "ok")))
       => \A k \in 1..Len(d.inputs) :
             LET r == d.inputs[k]
                 i == findExistingRecord(d.existing, r.name, RRType(r), d.zone)
             IN  (/\ (k < d.idx \/ d.pc = "done")
                  /\ IsAddress(r) /\ i # 0
                  /\ \E e \in 1..Len(ListAtStart(d, d.existing[i].ID)) :
                        ListAtStart(d, d.existing[i].ID)[e] = RRData(r))
                 => \E n \in 1..Len(d.log) :
                       /\ d.log[n].m \in {"PUT", "DELETE"}
                       /\ d.log[n].target = d.existing[i].ID

\* C1: DeleteRecords, A/AAAA array surgery.  In every step, for an A/AAAA
\* input whose located provider record holds the input's IP, exactly one
\* request is issued: an update of that record's identifier carrying the
\* reduced list (and no delete) when another IP remains, a full delete of
\* that identifier when the removal empties the list; no such input is
\* passed over, and no update ever carries an empty list.
C1_AddressSurgery ==
    [][\A p \in DOMAIN call :
          C1_Step(call[p], call'[p]) /\ C1_State(call'[p])]_vars

\* an update that left one of two IPs was issued and applied
C1_Witness ==
    \E p \in DOMAIN call :
        LET c == call[p]
        IN  /\ c.op = "Delete"
            /\ Len(c.log) >= 1
            /\ c.log[Len(c.log)].m = "PUT"
            /\ c.log[Len(c.log)].body.v = <<"2.2.2.2">>
            /\ Applied(c.log[Len(c.log)].a)
            /\ \E i \in 1..Len(zoneRecs) : zoneRecs[i].v = <<"2.2.2.2">>

\* the inputs of a call with the name+type of input r
SameKey(r, s) == r.name = s.name /\ RRType(r) = RRType(s)

\* a provider record stands for input r's name+type in the call's zone
HasKey(sr, r, zone) == Denotes(WireRec(sr), r.name, RRType(r), zone)

\* C2: SetRecords, declarative overwrite.  When SetRecords has returned
\* without error, then for every name+type among the inputs no provider
\* record of that name+type that existed before the call is left, and the
\* zone holds one record of that name+type per such input.
C2_SetOverwrites ==
    \A p \in DOMAIN call :
        LET c == call[p]
        IN  (c.op = "Set" /\ c.pc = "done" /\ c.outcome = "ok")
            => \A k \in 1..Len(c.inputs) :
                  LET r == c.inputs[k]
                      now == {i \in 1..Len(zoneRecs) : HasKey(zoneRecs[i], r, c.zone)}
                  IN  /\ \A i \in now :
                            \A j \in 1..Len(c.zone0) : c.zone0[j].id # zoneRecs[i].id
                      /\ Cardinality(now)
                            = Cardinality({j \in 1..Len(c.inputs) : SameKey(c.inputs[j], r)})

\* C8: the value DeleteRecords returns.  When DeleteRecords has returned
\* without error it returns one record per delete or update it issued, and
\* the returned records are, in input order, inputs of the call (same name,
\* type and data).
C8_ReturnsDeleted ==
    \A p \in DOMAIN call :
        LET c == call[p]
        IN  (c.op = "Delete" /\ c.pc = "done" /\ c.outcome = "ok")
            => /\ Len(c.ret) = Len(Mutations(c))
               /\ \E g \in [1..Len(c.ret) -> 1..Len(c.inputs)] :
                     /\ \A a, b \in 1..Len(c.ret) : a < b => g[a] < g[b]
                     /\ \A a \in 1..Len(c.ret) :
                           /\ c.ret[a].name = c.inputs[g[a]].name
                           /\ RRType(c.ret[a]) = RRType(c.inputs[g[a]])
                           /\ c.ret[a].f = c.inputs[g[a]].f

\* the delete requests of a call for identifier id
DeletesOf(c, id) == SelectSeq(c.log, LAMBDA q : q.m = "DELETE" /\ q.target = id)

\* the inputs of a SetRecords call that the locator maps to identifier id
InputsFor(c, id) ==
    {k \in 1..Len(c.inputs) :
        LET i == findExistingRecord(c.existing, c.inputs[k].name,
                                    RRType(c.inputs[k]), c.zone)
        IN  i # 0 /\ c.existing[i].ID = id}

-----------------------------------------------------------------------------
(* DeleteRecords called twice in succession with the same record *)

\* DeleteRecords(zone, [r])
StartDelete(p) ==
    /\ call[p].pc = "idle"
    /\ \E z \in ZoneStrs, r \in InputCands :
          call' = [call EXCEPT ![p] =
                [NewCall EXCEPT !.pc = "init", !.op = "Delete", !.zone = z,
                                !.inputs = <<r>>, !.zone0 = zoneRecs, !.n = 1]]
    /\ UNCHANGED <<serverVars, client, nInit, mu, fx>>

\* the same call again, after the first has returned without error
RepeatDelete(p) ==
    LET c == call[p]
    IN  /\ c.pc = "done" /\ c.outcome = "ok" /\ c.n = 1
        /\ call' = [call EXCEPT ![p] =
                [NewCall EXCEPT !.pc = "init", !.op = "Delete", !.zone = c.zone,
                                !.inputs = c.inputs, !.zone0 = zoneRecs, !.n = 2,
                                !.prev = [op |-> c.op, zone |-> c.zone,
                                          inputs |-> c.inputs,
                                          outcome |-> c.outcome]]]
        /\ UNCHANGED <<serverVars, client, nInit, mu, fx>>

NextTwice ==
    \E p \in Caller :
        \/ StartDelete(p)
        \/ RepeatDelete(p)
        \/ EnsureClient(p)
        \/ ListPage(p)
        \/ DeleteStep(p)

SpecTwice == Init /\ [][NextTwice]_vars

\* C5: idempotent delete.  A second DeleteRecords(zone, [r]) right after a
\* first one that succeeded, all of whose requests are answered without
\* error, returns no error, issues no delete and no update, and leaves the
\* zone as it was.
C5_IdempotentDelete ==
    \A p \in DOMAIN call :
        LET c == call[p]
        IN  (c.n = 2 /\ Terminated(c) /\ AllAnswered(c))
            => /\ c.outcome = "ok"
               /\ Mutations(c) = <<>>
               /\ zoneRecs = c.zone0

-----------------------------------------------------------------------------
(* Failures in the middle of a mutating call *)

\* the identifiers the zone holds when the applied requests of the call's log
\* are the only changes since the call started: those it held, without the
\* targets of the applied deletes, with one new identifier per applied create
IdsAfterLog(c) ==
    LET old == {c.zone0[i].id : i \in 1..Len(c.zone0)}
        gone == {c.log[i].target : i \in {k \in 1..Len(c.log) :
                        c.log[k].m = "DELETE" /\ Applied(c.log[k].a)}}
        made == Len(SelectSeq(c.log, LAMBDA q : q.m = "POST" /\ Applied(q.a)))
    IN  (old \ gone) \cup ((Len(c.zone0) + 1)..(Len(c.zone0) + made))

\* C11: abort without rollback or retry.  In AppendRecords, SetRecords and
\* DeleteRecords a mutating request (create, update, delete) that fails is
\* the last request of the call: the call has returned an error and no
\* records, and the zone holds exactly what the earlier applied requests of
\* the call left (nothing is undone, nothing is issued again).
C11_AbortNoRollback ==
    \A p \in DOMAIN call :
        LET c == call[p]
        IN  \A i \in 1..Len(c.log) :
                (c.log[i].m # "GET" /\ doFails(c.log[i].a))
                => /\ i = Len(c.log)
                   /\ c.pc = "done" /\ c.outcome = "err" /\ c.ret = <<>>
                   /\ {zoneRecs[k].id : k \in 1..Len(zoneRecs)} = IdsAfterLog(c)
                   /\ \A k \in 1..(i - 1) :
                         (c.log[k].m = "PUT" /\ Applied(c.log[k].a))
                         => \E z \in 1..Len(zoneRecs) :
                               /\ zoneRecs[z].id = c.log[k].target
                               /\ zoneRecs[z].v = c.log[k].body.v

\* AppendRecords whose second create failed after its first was applied
C11_Witness ==
    \E p \in DOMAIN call :
        LET c == call[p]
        IN  /\ c.op = "Append"
            /\ Len(c.log) = 2
            /\ Applied(c.log[1].a)
            /\ doFails(c.log[2].a)
            /\ c.outcome = "err"
            /\ Len(zoneRecs) = Len(c.zone0) + 1

-----------------------------------------------------------------------------
(* GetRecords as a whole *)

\* C12: GetRecords is all-or-nothing.  A GetRecords call that is over, one
\* of whose page requests failed or one of whose fetched records does not
\* translate, has returned an error and no records; and a call that returned
\* without error fetched every page and returns one record per provider
\* record of the listing.
C12_GetAllOrNothing ==
    \A p \in DOMAIN call :
        LET c == call[p]
            pageFailed == \E i \in 1..Len(c.log) : doFails(c.log[i].a)
            undecoded == c.log # <<>> /\ ~pageFailed /\ listShape = "flat"
            untranslated == \E i \in 1..Len(c.existing) :
                                toLibDNSRecord(c.existing[i], c.zone).st # "ok"
        IN  (c.op = "Get" /\ Terminated(c))
            => /\ (pageFailed \/ undecoded \/ untranslated)
                    => (c.pc = "done" /\ c.outcome = "err" /\ c.ret = <<>>)
               /\ c.outcome = "ok"
                    => /\ Len(Requests(c, "GET")) = PagesOf(Len(c.zone0))
                       /\ Len(c.ret) = Len(c.zone0)

-----------------------------------------------------------------------------
(* DeleteRecords: inputs that are passed over *)

\* getRecords of the call has returned the listing
Listed(c) ==
    /\ PastListing(c)
    /\ listShape = "nested"
    /\ \A i \in 1..Len(c.log) : c.log[i].m = "GET" => Applied(c.log[i].a)

\* the provider record the locator finds for input k (0: none)
Located(c, k) ==
    findExistingRecord(c.existing, c.inputs[k].name, RRType(c.inputs[k]), c.zone)

\* input k has nothing to remove: no provider record is located for it, or
\* it is an A/AAAA input and the located record held no entry equal to its IP
\* when the call started
NothingToRemove(c, k) ==
    LET i == Located(c, k)
        list == ListAtStart(c, c.existing[i].ID)
    IN  \/ i = 0
        \/ /\ IsAddress(c.inputs[k])
           /\ \A e \in 1..Len(list) : list[e] # RRData(c.inputs[k])

ToRemove(c) == {k \in 1..Len(c.inputs) : ~NothingToRemove(c, k)}

\* C13: DeleteRecords passes over every input that has nothing to remove.
\* Each delete or update of the call is for the record of an input that has
\* something to remove, and there are no more requests or returned records
\* than such inputs; a call all of whose inputs have nothing to remove
\* returns no error, no records and leaves the zone alone; and a call that
\* returned without error has issued a request for every input that has
\* something to remove, also behind inputs that were passed over.
C13_DeleteSkips ==
    \A p \in DOMAIN call :
        LET c == call[p]
            muts == Mutations(c)
            some == ToRemove(c)
            ids == {c.existing[Located(c, k)].ID : k \in some}
        IN  (c.op = "Delete" /\ Listed(c))
            => /\ \A n \in 1..Len(muts) : muts[n].target \in ids
               /\ Len(muts) <= Cardinality(some)
               /\ Len(c.ret) <= Cardinality(some)
               /\ some = {}
                     => /\ c.pc = "done" /\ c.outcome = "ok" /\ c.ret = <<>>
                        /\ zoneRecs = c.zone0
               /\ (c.pc = "done" /\ c.outcome = "ok")
                     => \A id \in ids :
                           \E n \in 1..Len(muts) : muts[n].target = id

\* an A input whose located record does not hold its IP was passed over and
\* the input behind it was deleted
C13_Witness ==
    \E p \in DOMAIN call :
        LET c == call[p]
        IN  /\ c.op = "Delete" /\ c.pc = "done" /\ c.outcome = "ok"
            /\ Len(c.inputs) = 2
            /\ IsAddress(c.inputs[1])
            /\ Located(c, 1) # 0
            /\ NothingToRemove(c, 1)
            /\ ~NothingToRemove(c, 2)
            /\ Len(Mutations(c)) = 1
            /\ Len(c.ret) = 1
            /\ Len(zoneRecs) = Len(c.zone0) - 1

-----------------------------------------------------------------------------
(* SetRecords: the order of its requests *)

\* the inputs of the call for which the locator finds a provider record
WithExisting(c) == {k \in 1..Len(c.inputs) : Located(c, k) # 0}

\* the identifiers located for those inputs, in input order
RECURSIVE LocatedIds(_, _)
LocatedIds(c, k) ==
    IF k > Len(c.inputs) THEN <<>>
    ELSE (IF Located(c, k) # 0 THEN <<c.existing[Located(c, k)].ID>> ELSE <<>>)
         \o LocatedIds(c, k + 1)

\* C16: the order of SetRecords.  The requests of a SetRecords call are, in
\* this order: one listing (the pages 1, 2, ... each requested once), then
\* deletes, then creates.  The deletes go, in input order, to the records
\* located for the inputs; a create is only issued when a delete was issued
\* and answered without error for every input with a located record; and no
\* page is requested after the first delete or create.
C16_SetOrder ==
    \A p \in DOMAIN call :
        LET c == call[p]
            gets == Requests(c, "GET")
            dels == Requests(c, "DELETE")
            posts == Requests(c, "POST")
            ids == LocatedIds(c, 1)
        IN  c.op = "Set" =>
            /\ c.log = gets \o dels \o posts
            /\ \A i \in 1..Len(gets) : gets[i].target = i
            /\ Requests(c, "PUT") = <<>>
            /\ dels # <<>> \/ posts # <<>> => Len(gets) = PagesOf(Len(c.zone0))
            /\ dels = <<>> \/ Listed(c)
            /\ Listed(c) =>
                  /\ Len(dels) <= Len(ids)
                  /\ \A i \in 1..Len(dels) : dels[i].target = ids[i]
                  /\ (posts # <<>> \/ c.pc = "create")
                        => /\ Len(dels) = Len(ids)
                           /\ \A i \in 1..Len(dels) : Applied(dels[i].a)

\* a SetRecords call that listed two pages, deleted two records and created
\* two
C16_Witness ==
    \E p \in DOMAIN call :
        LET c == call[p]
        IN  /\ c.op = "Set"
            /\ Len(Requests(c, "GET")) = 2
            /\ Len(Requests(c, "DELETE")) = 2
            /\ Len(Requests(c, "POST")) = 2
            /\ c.log[3].target # c.log[4].target

-----------------------------------------------------------------------------
(* DeleteRecords: records of other types than A and AAAA *)

\* C17: DeleteRecords, non-address types.  In a DeleteRecords call that is
\* over, whose inputs are all of types other than A and AAAA and all of whose
\* requests were answered without error: a full delete was issued for the
\* located record of every input that has one, whatever the input's data,
\* no update was issued, and the call returned without error one record per
\* such input.
C17_DeleteOtherTypes ==
    \A p \in DOMAIN call :
        LET c == call[p]
        IN  (/\ c.op = "Delete" /\ Terminated(c) /\ Listed(c)
             /\ AllAnswered(c)
             /\ \A k \in 1..Len(c.inputs) : ~IsAddress(c.inputs[k]))
            => /\ Requests(c, "PUT") = <<>>
               /\ [i \in 1..Len(Requests(c, "DELETE")) |->
                        Requests(c, "DELETE")[i].target] = LocatedIds(c, 1)
               /\ c.outcome = "ok"
               /\ Len(c.ret) = Cardinality(WithExisting(c))

-----------------------------------------------------------------------------
(* The frame of SetRecords and DeleteRecords *)

\* provider record sr has the name+type of some input of the call
KeyOfSomeInput(c, sr) ==
    \E k \in 1..Len(c.inputs) : HasKey(sr, c.inputs[k], c.zone)

\* C20: the frame of SetRecords and DeleteRecords.  Every delete and update
\* of such a call goes to the identifier of a provider record whose
\* normalized name and type are those of an input of the call, and every
\* provider record the zone held when the call started whose name+type is
\* that of no input is still in the zone, unchanged, at every point of the
\* call, however the call ends.
C20_Frame ==
    \A p \in DOMAIN call :
        LET c == call[p]
            keyed == {j \in 1..Len(c.zone0) : KeyOfSomeInput(c, c.zone0[j])}
        IN  c.op \in {"Set", "Delete"} =>
            /\ \A n \in 1..Len(c.log) :
                  c.log[n].m \in {"DELETE", "PUT"}
                  => \E j \in keyed : c.zone0[j].id = c.log[n].target
            /\ \A j \in (1..Len(c.zone0)) \ keyed :
                  \E i \in 1..Len(zoneRecs) : zoneRecs[i] = c.zone0[j]

\* a call removed the record of its input and the zone's other record, of
\* another type, is still there
C20_Witness ==
    \E p \in DOMAIN call :
        LET c == call[p]
        IN  /\ c.op \in {"Set", "Delete"}
            /\ Terminated(c)
            /\ Len(c.zone0) = 2
            /\ \E n \in 1..Len(c.log) :
                  c.log[n].m = "DELETE" /\ Applied(c.log[n].a)
            /\ \E j \in 1..2 :
                  /\ ~KeyOfSomeInput(c, c.zone0[j])
                  /\ \E i \in 1..Len(zoneRecs) : zoneRecs[i] = c.zone0[j]

-----------------------------------------------------------------------------
(* Harness of the TXT quoting: a text is wrapped, the result wrapped again  *)
(* and the first result unwrapped.                                          *)

QuoteInit ==
    /\ IdleFacade
    /\ \E t \in TextsUpTo(MaxTextLen) :
          fx = [st |-> "text", t |-> t, w |-> <<>>, ww |-> <<>>, u |-> <<>>]

QuoteWrap ==
    /\ fx.st = "text"
    /\ fx' = [fx EXCEPT !.st = "wrapped", !.w = wrapContent(fx.t)]
    /\ UNCHANGED facadeVars

QuoteRewrap ==
    /\ fx.st = "wrapped"
    /\ fx' = [fx EXCEPT !.st = "rewrapped", !.ww = wrapContent(fx.w)]
    /\ UNCHANGED facadeVars

QuoteUnwrap ==
    /\ fx.st = "rewrapped"
    /\ fx' = [fx EXCEPT !.st = "unwrapped", !.u = unwrapContent(fx.w)]
    /\ UNCHANGED facadeVars

QuoteNext == QuoteWrap \/ QuoteRewrap \/ QuoteUnwrap

SpecQuote == QuoteInit /\ [][QuoteNext]_vars

\* C19: TXT quoting.  For every text, wrapping the wrapped text changes
\* nothing, and unwrapping the wrapped text gives the text back.
C19_QuotingInverse ==
    /\ fx.st \in {"rewrapped", "unwrapped"} => fx.ww = fx.w
    /\ fx.st = "unwrapped" => fx.u = fx.t

-----------------------------------------------------------------------------
(* client.do (client.go:168-199) on one response, and its harness.         *)
(*                                                                         *)
(* A response is [sent, envelope, status, errors, data]:                   *)
(*   sent      httpClient.Do returned a response (FALSE: a transport error) *)
(*   envelope  the body decodes as the JSON envelope arResponse             *)
(*   errors    length of the envelope's errors list                         *)
(*   data      the envelope's data: "absent"; "null"; "object", an object   *)
(*             whose fields fit the result; "misfit", an object with an id  *)
(*             and a ttl that is a JSON string; "array", a JSON array       *)
(* The caller's result is a struct, modelled by its fields ID and TTL;      *)
(* hasResult = FALSE is a nil result argument.                              *)
(***************************************************************************)

Statuses == {200, 399, 400, 500}

DataShapes == {"absent", "null", "object", "misfit", "array"}

Responses ==
    [sent : BOOLEAN, envelope : BOOLEAN, status : Statuses, errors : {0, 1},
     data : DataShapes]

ResultsBefore == {[ID |-> 0, TTL |-> 0], [ID |-> 7, TTL |-> 30]}

\* json.Unmarshal(respData.Data, result) for a struct result: fields that fit
\* are stored, a field of the wrong JSON type is skipped and reported when
\* the rest has been stored; null stores nothing; an array is reported and
\* stores nothing
Unmarshal(data, result) ==
    CASE data = "object" -> [err |-> FALSE, result |-> [ID |-> 1, TTL |-> 60]]
      [] data = "misfit" -> [err |-> TRUE, result |-> [result EXCEPT !.ID = 1]]
      [] data = "array" -> [err |-> TRUE, result |-> result]
      [] OTHER -> [err |-> FALSE, result |-> result]

do(resp, hasResult, result) ==
    IF ~resp.sent THEN [err |-> TRUE, result |-> result]
    ELSE IF ~resp.envelope THEN [err |-> TRUE, result |-> result]
    ELSE IF resp.status >= 400 THEN [err |-> TRUE, result |-> result]
    ELSE IF resp.errors > 0 THEN [err |-> TRUE, result |-> result]
    ELSE IF resp.data # "absent" /\ hasResult THEN Unmarshal(resp.data, result)
    ELSE [err |-> FALSE, result |-> result]

DoInit ==
    /\ IdleFacade
    /\ \E resp \in Responses, h \in BOOLEAN, r \in ResultsBefore :
          fx = [st |-> "response", resp |-> resp, hasResult |-> h,
                before |-> r, err |-> FALSE, after |-> r]

DoApply ==
    /\ fx.st = "response"
    /\ fx' = [fx EXCEPT !.st = "returned",
                        !.err = do(fx.resp, fx.hasResult, fx.before).err,
                        !.after = do(fx.resp, fx.hasResult, fx.before).result]
    /\ UNCHANGED facadeVars

DoNext == DoApply

SpecDo == DoInit /\ [][DoNext]_vars

\* C18: the decoding of the response envelope in client.do.  A response
\* with status >= 400 is an error whatever else it holds; one with status
\* below 400 and a non-empty errors list is an error; the caller's result
\* is changed only when both checks passed; and whenever client.do returns
\* an error the caller's result is what it was before.
C18_EnvelopeDecoding ==
    fx.st = "returned" =>
        /\ (fx.resp.sent /\ fx.resp.status >= 400) => fx.err
        /\ (fx.resp.sent /\ fx.resp.status < 400 /\ fx.resp.envelope
                /\ fx.resp.errors > 0) => fx.err
        /\ fx.after # fx.before
                => (fx.resp.status < 400 /\ fx.resp.errors = 0)
        /\ fx.err => fx.after = fx.before

-----------------------------------------------------------------------------
(* Concurrent callers of one Provider.  The locked section at the head of  *)
(* every operation (part_000 lines 25-29, 49-53, 87-91, 117-121) is taken  *)
(* step by step: Lock, the test of p.client, newClient with the            *)
(* assignment, Unlock.  The rest of each operation runs as in the          *)
(* sequential specification, one transport request per step, and the steps *)
(* of different callers interleave freely.                                  *)
(***************************************************************************)

MaxCallers == 2

Callers == 1..MaxCallers

\* the zones and calls of the concurrent runs: an empty zone or one holding a
\* record of a type outside the codec's switch; the callers list the zone or
\* append, set or delete one record of that record's name and type
ConcZones ==
    {<<>>, <<ServerRec(1, "X", <<"w", ".", "z", ".">>, 60, "jsonstr", <<"{", "d1">>)>>}

ConcInput == Generic("RR", <<"w">>, 60000, "X", <<"d2">>)

ConcInit ==
    /\ zoneRecs \in ConcZones
    /\ nextId = Len(zoneRecs) + 1
    /\ listShape = "nested"
    /\ client = 0
    /\ nInit = 0
    /\ mu = 0
    /\ call = [p \in Callers |-> NewCall]
    /\ fx = [st |-> "off"]

StartConc(p) ==
    /\ call[p].pc = "idle"
    /\ \E o \in Ops :
          call' = [call EXCEPT ![p] =
                [NewCall EXCEPT !.pc = "init", !.op = o, !.zone = <<"z">>,
                                !.inputs = IF o = "Get" THEN <<>> ELSE <<ConcInput>>,
                                !.zone0 = zoneRecs, !.n = 1]]
    /\ UNCHANGED <<serverVars, client, nInit, mu, fx>>

\* a mutex that never makes a caller wait
CanLockAlways(m) == TRUE

\* sync.Mutex.Lock returns only when nobody holds the mutex
CanLock(m) == m = 0

\* p.mu.Lock()
LockMu(p) ==
    /\ call[p].pc = "init"
    /\ CanLock(mu)
    /\ mu' = p
    /\ call' = [call EXCEPT ![p].pc = "locked"]
    /\ UNCHANGED <<serverVars, client, nInit, fx>>

\* if p.client == nil
TestClient(p) ==
    /\ call[p].pc = "locked"
    /\ call' = [call EXCEPT ![p].pc = IF client = 0 THEN "new" ELSE "unlock"]
    /\ UNCHANGED <<serverVars, client, nInit, mu, fx>>

\* p.client = newClient(p.AuthAPIKey)
NewClient(p) ==
    /\ call[p].pc = "new"
    /\ client' = nInit + 1
    /\ nInit' = nInit + 1
    /\ call' = [call EXCEPT ![p].pc = "unlock"]
    /\ UNCHANGED <<serverVars, mu, fx>>

\* an operation that keeps the mutex until it returns
UnlockMuNever(p) ==
    /\ call[p].pc = "unlock"
    /\ call' = [call EXCEPT ![p] = LeaveLocked(call[p], client)]
    /\ UNCHANGED <<serverVars, client, nInit, mu, fx>>

\* p.mu.Unlock(), and the read of p.client behind it
UnlockMu(p) ==
    /\ call[p].pc = "unlock"
    /\ mu' = 0
    /\ call' = [call EXCEPT ![p] = LeaveLocked(call[p], client)]
    /\ UNCHANGED <<serverVars, client, nInit, fx>>

NextConc ==
    \E p \in Callers :
        \/ StartConc(p)
        \/ LockMu(p)
        \/ TestClient(p)
        \/ NewClient(p)
        \/ UnlockMu(p)
        \/ ListPage(p)
        \/ SetDelete(p)
        \/ Create(p)
        \/ DeleteStep(p)

SpecConc == ConcInit /\ [][NextConc]_vars

\* a call is past its locked section
PastLocked(c) == c.pc \in {"list", "setdel", "create", "del", "done", "crashed"}

\* C14: lazy client initialization.  However the calls of concurrent
\* callers interleave, newClient is invoked once (never a second time), the
\* client field is never assigned again once it is non-nil, and every call
\* that is past its locked section sends its requests with the client the
\* Provider holds.
C14_OneClient ==
    [][/\ nInit' <= 1
       /\ client # 0 => client' = client
       /\ \A p \in DOMAIN call' :
             PastLocked(call'[p]) => (call'[p].cl # 0 /\ call'[p].cl = client'
                                      /\ nInit' = 1)]_vars

\* two callers were in the head of their operations at the same time, and
\* both are past it now
C14_Witness ==
    /\ Len(call) >= 2
    /\ \A p \in {1, 2} : PastLocked(call[p]) /\ call[p].log = <<>> /\ call[p].pc # "done"
    /\ nInit = 1

\* a call is between its locked section and its return
InFlight(c) == c.pc \in {"list", "setdel", "create", "del"}

\* C15: concurrent SetRecords calls are not serialized.  The mutex covers
\* only the initialization of the client: no call holds it while it lists,
\* deletes or creates, so nothing keeps the requests of two calls apart.
C15_SetNotSerialized ==
    \A p \in DOMAIN call : InFlight(call[p]) => mu # p

\* two SetRecords calls for one name+type both fetched the same record; one
\* deleted it, and the other then sent its delete for the identifier that
\* was gone, was refused and failed
C15_Witness ==
    \E p, q \in DOMAIN call :
        LET c == call[p]
            d == call[q]
        IN  /\ p # q
            /\ c.op = "Set" /\ d.op = "Set"
            /\ c.inputs = d.inputs
            /\ Len(c.existing) = 1 /\ c.existing = d.existing
            /\ \E n \in 1..Len(c.log) :
                  /\ c.log[n].m = "DELETE" /\ Applied(c.log[n].a)
                  /\ c.log[n].target = c.existing[1].ID
            /\ d.log # <<>>
            /\ d.log[Len(d.log)].m = "DELETE"
            /\ d.log[Len(d.log)].target = d.existing[1].ID
            /\ d.log[Len(d.log)].a.status = 404
            /\ d.pc = "done" /\ d.outcome = "err"

-----------------------------------------------------------------------------
(* DeleteRecords: several IPs of one A/AAAA record in one call *)

\* the inputs of the call are A/AAAA records naming distinct IPs that are
\* all entries of the one provider record the locator finds for them
SeveralOfOne(c) ==
    /\ c.inputs # <<>>
    /\ \A k \in 1..Len(c.inputs) :
          /\ IsAddress(c.inputs[k])
          /\ Located(c, k) # 0
          /\ Located(c, k) = Located(c, 1)
          /\ ~NothingToRemove(c, k)
    /\ \A k, m \in 1..Len(c.inputs) :
          k # m => RRData(c.inputs[k]) # RRData(c.inputs[m])

\* the entries of an IP list that no input of the call names, in their order
Others(c, list) ==
    SelectSeq(list, LAMBDA e : \A k \in 1..Len(c.inputs) : RRData(c.inputs[k]) # e)

\* C21: several removals from one address record in one DeleteRecords call.
\* When the inputs name k distinct IPs of one provider A/AAAA record holding
\* n IPs and every request of the call is answered without error, the call
\* returns without error, and then the record holds the n-k other IPs in
\* their original order when k < n, and is gone, by a full delete as the
\* last request, when k = n -- in whatever order the inputs come.
C21_SeveralRemovals ==
    \A p \in DOMAIN call :
        LET c == call[p]
            id == c.existing[Located(c, 1)].ID
            rest == Others(c, ListAtStart(c, id))
            muts == Mutations(c)
        IN  (/\ c.op = "Delete" /\ Terminated(c) /\ Listed(c)
             /\ AllAnswered(c)
             /\ SeveralOfOne(c))
            => /\ c.outcome = "ok"
               /\ Len(muts) = Len(c.inputs)
               /\ IF rest # <<>>
                  THEN /\ IndexOfId(id) # 0
                       /\ zoneRecs[IndexOfId(id)].v = rest
                       /\ \A n \in 1..Len(muts) : muts[n].m = "PUT"
                  ELSE /\ IndexOfId(id) = 0
                       /\ muts[Len(muts)].m = "DELETE"

=============================================================================
